---- MODULE Spec2Model ----
(***************************************************************************)
(* Cart service of the e-commerce backend: the cart store (two tables of   *)
(* a PostgreSQL database reached through one SQLAlchemy session per        *)
(* request), the catalog gateway and the cart service methods that         *)
(* orchestrate them.                                                       *)
(*                                                                         *)
(* Granularity: one step per SQL statement (a flush+commit+refresh is one  *)
(* step) and one step per catalog call.  Every request owns a session: an  *)
(* object loaded once keeps its attribute values until the session commits *)
(* (identity map, expire_on_commit), and an UPDATE carries only the        *)
(* columns whose value differs from the loaded one.  The catalog belongs   *)
(* to another service and changes on its own: what a fetch answers is an   *)
(* input of the step that fetches.                                         *)
(***************************************************************************)
EXTENDS Integers, Sequences, FiniteSets, TLC

VARIABLES carts, items, req

vars == <<carts, items, req>>

\* ---------------------------------------------------------------- universe
Procs == {"r1", "r2"}
Users == {"u1", "u2"}
Products == {"p1", "p2"}
\* unit prices in hundredths: Decimal(str(price)) and the Numeric(10, 2)
\* column keep a price of two decimals as it is
Prices == {10, 12}

MaxStock == 2
MaxCartQuantity == 3
MaxBulk == 2

\* request quantities accepted by the DTO validators (gt=0, le=100)
MinQuantity == 1
MaxQuantity == 100
QuantityValid(q) == q >= MinQuantity /\ q <= MaxQuantity
Quantities == {q \in 1..MaxStock : QuantityValid(q)}

\* ------------------------------------------------------------------ catalog
NotFound == [found |-> FALSE, is_active |-> FALSE, stock |-> 0, price |-> 0]
Snapshots == [found : {TRUE}, is_active : BOOLEAN, stock : 0..MaxStock, price : Prices]

\* C, below, is the set of snapshots the catalog answers a single fetch with
\* in a scenario, and B the set it answers the fetches of a batch with.
\* get_product: the snapshot of a 200 response; None on a 404, on any other
\* status, on a timeout and on any transport error
get_product(C) == {NotFound} \cup C

\* get_products_batch: one fetch per requested id; only a 200 response puts
\* the id in the result, so the keys are among the requested ids
get_products_batch(B, ids) ==
    {[p \in Products |-> IF p \in ids THEN f[p] ELSE NotFound] :
        f \in [ids -> {NotFound} \cup B]}

\* what one GET /products/{id} comes to: a response with status 200 and a
\* snapshot for body, a response with status 404 or with another status, a
\* timeout (httpx.TimeoutException) or another transport error
Failures == {"404", "500", "timeout", "error"}
Answers(C) ==
    {[status |-> "200", body |-> c] : c \in C}
    \cup {[status |-> f, body |-> NotFound] : f \in Failures}
NoAnswer == [status |-> "none", body |-> NotFound]

\* a get_product that lets a timeout through
timeout_raised(answer) ==
    IF answer.status = "timeout"
    THEN [raised |-> "TimeoutException", product |-> NotFound]
    ELSE [raised |-> "none",
          product |-> IF answer.status = "200" THEN answer.body ELSE NotFound]

\* get_product on one answer: what it returns and the exception that leaves
\* it.  The two except clauses return None; of the responses only a 200
\* returns its body
get_product_for(answer) ==
    IF answer.status = "timeout" THEN [raised |-> "none", product |-> NotFound]
    ELSE IF answer.status = "error" THEN [raised |-> "none", product |-> NotFound]
    ELSE IF answer.status = "200" THEN [raised |-> "none", product |-> answer.body]
    ELSE IF answer.status = "404" THEN [raised |-> "none", product |-> NotFound]
    ELSE [raised |-> "none", product |-> NotFound]

\* a batch whose loop has no try
batch_unguarded(ids, answers) ==
    IF \E p \in ids : answers[p].status \in {"timeout", "error"}
    THEN [raised |-> "Exception", results |-> [p \in Products |-> NotFound]]
    ELSE [raised |-> "none",
          results |-> [p \in Products |->
                         IF p \in ids /\ answers[p].status = "200"
                         THEN answers[p].body ELSE NotFound]]

\* get_products_batch on the answers to its fetches: each fetch is awaited
\* inside its own try, an exception is logged and a response that is no
\* 200 is skipped; a product the result lacks is NotFound here
get_products_batch_for(ids, answers) ==
    [raised |-> "none",
     results |-> [p \in Products |->
                    IF p \in ids /\ answers[p].status \notin {"timeout", "error"}
                                 /\ answers[p].status = "200"
                    THEN answers[p].body ELSE NotFound]]

\* ------------------------------------------------------------------- store
\* a query for the items of a cart that leaves out its WHERE clause
RowsOfAnyCart(cart_id) == items

\* the rows of a cart: cart_items WHERE cart_id
Rows(cart_id) == {i \in items : i.cart_id = cart_id}
ItemRows(cart_id, product_id) == {i \in Rows(cart_id) : i.product_id = product_id}
UserCarts(user_id) == {c \in carts : c.user_id = user_id}

\* CartItem.id, a uuid4: the key of a live row is its own, and the key of a
\* deleted row never comes back.  A live row is keyed by its cart, product
\* and a number that tells it from the other live rows of that pair; a
\* session that still holds a deleted row holds DeadId, which matches no row
NoId == <<0, "none", 0>>
DeadId == <<0, "dead", 0>>
FreshId(cart_id, product_id) ==
    <<cart_id, product_id,
      CHOOSE n \in 0..Cardinality(items) :
         /\ \A i \in items : i.id # <<cart_id, product_id, n>>
         /\ \A m \in 0..(n - 1) : \E i \in items : i.id = <<cart_id, product_id, m>> >>

NoItem == [id |-> NoId, cart_id |-> 0, product_id |-> "none", quantity |-> 0, price |-> 0]

RECURSIVE SumQuantity(_)
SumQuantity(S) ==
    IF S = {} THEN 0
    ELSE LET o == CHOOSE x \in S : TRUE IN o.quantity + SumQuantity(S \ {o})

RECURSIVE SumTotal(_)
SumTotal(S) ==
    IF S = {} THEN 0
    ELSE LET o == CHOOSE x \in S : TRUE IN o.quantity * o.price + SumTotal(S \ {o})

\* ------------------------------------------------------- float arithmetic
\* Cart.subtotal and CartItem.total_price compute in binary64: a float is
\* <<bits, e>>, its 53 significant bits from the leading 1 down and the
\* exponent of the leading bit.  Every operation rounds to nearest, ties to
\* even.
Precision == 53

Bit(b) == IF b THEN 1 ELSE 0
Zeros(n) == [i \in 1..n |-> 0]
Reverse(bs) == [i \in 1..Len(bs) |-> bs[Len(bs) + 1 - i]]

\* the bits plus one, on the sequence from the lowest bit up
RECURSIVE IncRev(_)
IncRev(rev) ==
    IF rev = <<>> THEN <<1>>
    ELSE IF Head(rev) = 0 THEN <<1>> \o Tail(rev)
    ELSE <<0>> \o IncRev(Tail(rev))

\* the float nearest to the number whose bits are bs, the leading 1 of
\* weight 2^e
Round(bs, e) ==
    IF Len(bs) <= Precision
    THEN <<bs \o Zeros(Precision - Len(bs)), e>>
    ELSE LET kept == SubSeq(bs, 1, Precision)
             guard == bs[Precision + 1]
             sticky == \E i \in (Precision + 2)..Len(bs) : bs[i] = 1
             up == guard = 1 /\ (sticky \/ kept[Precision] = 1)
             inc == Reverse(IncRev(Reverse(kept))) IN
         IF ~up THEN <<kept, e>>
         ELSE IF Len(inc) > Precision THEN <<SubSeq(inc, 1, Precision), e + 1>>
         ELSE <<inc, e>>

\* n / d as a binary fraction: the exponent of its leading bit, and the two
\* numbers scaled so that d <= n < 2d
RECURSIVE Exponent(_, _)
Exponent(n, d) ==
    IF n >= 2 * d THEN Exponent(n, 2 * d) + 1
    ELSE IF n < d THEN Exponent(2 * n, d) - 1
    ELSE 0

RECURSIVE Scaled(_, _)
Scaled(n, d) ==
    IF n >= 2 * d THEN Scaled(n, 2 * d)
    ELSE IF n < d THEN Scaled(2 * n, d)
    ELSE <<n, d>>

\* the first k bits of r / d after the point (r < d), and what is left
RECURSIVE DivBits(_, _, _)
DivBits(r, d, k) ==
    IF k = 0 THEN <<>>
    ELSE IF 2 * r >= d THEN <<1>> \o DivBits(2 * r - d, d, k - 1)
    ELSE <<0>> \o DivBits(2 * r, d, k - 1)

RECURSIVE DivRest(_, _, _)
DivRest(r, d, k) ==
    IF k = 0 THEN r
    ELSE IF 2 * r >= d THEN DivRest(2 * r - d, d, k - 1)
    ELSE DivRest(2 * r, d, k - 1)

\* float(Decimal) of the decimal n / d, n > 0: correctly rounded
Double(n, d) ==
    LET nd == Scaled(n, d)
        r == nd[1] - nd[2] IN
    Round(<<1>> \o DivBits(r, nd[2], Precision)
               \o <<Bit(DivRest(r, nd[2], Precision) # 0)>>,
          Exponent(n, d))

\* the bits times a small integer, from the lowest bit up
RECURSIVE MulRev(_, _, _)
MulRev(rev, q, carry) ==
    IF rev = <<>>
    THEN (IF carry = 0 THEN <<>> ELSE <<carry % 2>> \o MulRev(rev, q, carry \div 2))
    ELSE LET t == Head(rev) * q + carry IN
         <<t % 2>> \o MulRev(Tail(rev), q, t \div 2)

\* quantity * float(price)
Times(q, x) ==
    LET bs == Reverse(MulRev(Reverse(x[1]), q, 0)) IN
    Round(bs, x[2] + Len(bs) - Precision)

\* the sum of two bit sequences of one length, from the lowest bit up
RECURSIVE AddRev(_, _, _)
AddRev(a, b, carry) ==
    IF a = <<>> THEN (IF carry = 0 THEN <<>> ELSE <<carry>>)
    ELSE LET t == Head(a) + Head(b) + carry IN
         <<t % 2>> \o AddRev(Tail(a), Tail(b), t \div 2)

\* x + y for two floats
Plus(x, y) ==
    LET hi == IF x[2] >= y[2] THEN x ELSE y
        lo == IF x[2] >= y[2] THEN y ELSE x
        shift == hi[2] - lo[2]
        a == hi[1] \o Zeros(shift)
        b == Zeros(shift) \o lo[1]
        bs == Reverse(AddRev(Reverse(a), Reverse(b), 0)) IN
    Round(bs, lo[2] + Len(bs) - Precision)

RECURSIVE IntOf(_)
IntOf(bs) == IF bs = <<>> THEN 0 ELSE 2 * IntOf(SubSeq(bs, 1, Len(bs) - 1)) + bs[Len(bs)]

\* the amount in hundredths nearest to float x (an x below 2^20)
NearestHundredth(x) ==
    LET bs == Zeros(Precision) \o Reverse(MulRev(Reverse(x[1]), 100, 0))
        cut == Len(bs) - (Precision - 1 - x[2]) IN
    IntOf(SubSeq(bs, 1, cut)) + bs[cut + 1]

\* Decimal(str(x)): str gives the shortest decimal that reads back as x, so
\* the Decimal is an amount in hundredths exactly when x is the float
\* nearest to that amount; otherwise it has more decimals and is no amount
\* in hundredths (floats are much denser than hundredths)
DecimalOfStr(x) ==
    LET h == NearestHundredth(x) IN
    [hundredths |-> h, exact |-> h > 0 /\ x = Double(h, 100)]

\* a function with all its values computed
Table(f) == f @@ <<>>

\* float(item.price) and item.quantity * float(item.price), computed once
\* for the prices of the model and the quantities that are common in it
FloatPrice == Table([price \in Prices |-> Double(price, 100)])
LineTotal ==
    Table([quantity \in 1..(2 * MaxCartQuantity), price \in Prices |->
              Times(quantity, FloatPrice[price])])

\* item.quantity * float(item.price)
total_price(o) ==
    IF <<o.quantity, o.price>> \in DOMAIN LineTotal
    THEN LineTotal[o.quantity, o.price]
    ELSE Times(o.quantity, Double(o.price, 100))

\* sum(item.quantity * float(item.price) for item in self.items), for a
\* cart that has items: the sum starts from the integer 0, and up to two
\* terms every Python version adds them in one rounded addition
RECURSIVE FloatSum(_)
FloatSum(S) ==
    LET o == CHOOSE x \in S : TRUE IN
    IF S = {o} THEN total_price(o)
    ELSE Plus(FloatSum(S \ {o}), total_price(o))

\* Decimal(str(cart.subtotal)) of a cart of one item and of two, computed
\* once
OneItem == Table([k \in DOMAIN LineTotal |-> DecimalOfStr(LineTotal[k])])
TwoItems ==
    Table([j \in DOMAIN LineTotal, k \in DOMAIN LineTotal |->
              DecimalOfStr(Plus(LineTotal[j], LineTotal[k]))])

\* Decimal(str(cart.subtotal)); an empty cart sums to the integer 0
Subtotal(S) ==
    LET key(o) == <<o.quantity, o.price>>
        tabled == \A o \in S : key(o) \in DOMAIN LineTotal IN
    IF S = {} THEN [hundredths |-> 0, exact |-> TRUE]
    ELSE IF Cardinality(S) = 1 /\ tabled
    THEN OneItem[key(CHOOSE o \in S : TRUE)]
    ELSE IF Cardinality(S) = 2 /\ tabled
    THEN LET o == CHOOSE x \in S : TRUE IN
         TwoItems[key(CHOOSE x \in S \ {o} : TRUE), key(o)]
    ELSE DecimalOfStr(FloatSum(S))

\* ---------------------------------------------------------- request state
OK == "ok"
NoResponse == [cart |-> 0, total_items |-> 0, subtotal |-> Subtotal({}), items |-> {}]
NoProducts == [p \in Products |-> NotFound]

\* what is remembered of the response before this request: nothing, or the
\* outcome of a get_cart or a prepare_checkout
NoPrev ==
    [op |-> "none", user_id |-> "none", result |-> "none", total_items |-> 0,
     subtotal |-> Subtotal({}), available_for_checkout |-> FALSE,
     fetched |-> NoProducts, cart_created |-> FALSE]

\* the locals of a request and its session: coll is Cart.items as loaded,
\* current_item, existing_item and todo are the CartItem objects the method
\* holds; an object is a copy of the row as it was when the session loaded it.
\* broken: a commit has failed and nothing has rolled the session back, so
\* that its next statement raises PendingRollbackError.  passed: the items
\* of a batch whose snapshot passed the validation.  fetched: the batch
\* result that prepare_checkout validates and sync_prices compares with.
\* valid, invalid: the two lists validate_products returns.  ids, answers:
\* the product ids of a call of the gateway alone and what the product
\* service answers each fetch with
Idle ==
    [pc |-> "idle", op |-> "none", user_id |-> "none", product_id |-> "none",
     quantity |-> 0, batch |-> <<>>, idx |-> 0,
     cart |-> 0, product |-> NotFound,
     current_item |-> NoItem, existing_item |-> NoItem,
     coll_loaded |-> FALSE, coll |-> {}, todo |-> {}, broken |-> FALSE,
     products |-> NoProducts,
     success |-> 0, failed |-> 0, errors |-> <<>>, passed |-> {},
     fetched |-> NoProducts, valid |-> {}, invalid |-> {},
     ids |-> {}, answers |-> [p \in Products |-> NoAnswer],
     unavailable |-> {}, available_for_checkout |-> FALSE,
     result |-> "none", response |-> NoResponse,
     catalog_called |-> FALSE, pre |-> {}, pre_carts |-> {}, prev |-> NoPrev]

Set(r, l) == req' = [req EXCEPT ![r] = l]

\* the request ends (a return or an uncaught exception): get_db closes the
\* session, the outcome stays visible until the response is sent
Done(l, res) ==
    [l EXCEPT !.pc = "done", !.result = res,
              !.coll_loaded = FALSE, !.coll = {}, !.todo = {}, !.broken = FALSE,
              !.current_item = NoItem, !.existing_item = NoItem,
              !.products = NoProducts]

\* the method returns get_cart(user_id): its locals go out of scope
ToGetCart(l) ==
    [l EXCEPT !.pc = "gc_select", !.current_item = NoItem, !.existing_item = NoItem,
              !.todo = {}, !.products = NoProducts]

\* the identity map of the session: the objects the request still holds
\* (the map keeps weak references); an expired object has no attributes
Expired(o) == [o EXCEPT !.quantity = 0, !.price = 0]
Held(l) ==
    {o \in l.coll \cup l.todo \cup {l.current_item, l.existing_item} :
        o # NoItem /\ o # Expired(o)}

\* a query returns the row as the session sees it: the object it already
\* holds for that key, with the attribute values it loaded, else the row
Fetch(l, row) ==
    IF \E o \in Held(l) : o.id = row.id
    THEN CHOOSE o \in Held(l) : o.id = row.id
    ELSE row

\* Session.commit: every object of the session is expired
Expire(l) ==
    [l EXCEPT !.coll_loaded = FALSE, !.coll = {},
              !.todo = {Expired(o) : o \in @},
              !.current_item = NoItem, !.existing_item = NoItem]

\* rows were deleted: a session that holds one of them holds a dead key
KillObject(o, ids) == IF o.id \in ids THEN [o EXCEPT !.id = DeadId] ELSE o
Kill(l, ids) ==
    [l EXCEPT !.coll = {KillObject(o, ids) : o \in @},
              !.todo = {KillObject(o, ids) : o \in @},
              !.current_item = KillObject(@, ids),
              !.existing_item = KillObject(@, ids)]

\* the statement after this one writes object o and commits, or raises: the
\* session reads no other object before the commit expires them all
ToWrite(l, o) ==
    [l EXCEPT !.existing_item = o, !.current_item = NoItem,
              !.coll_loaded = FALSE, !.coll = {}]

\* Cart.items (joinedload, or lazy load on first access after an expiry)
WithItems(l) ==
    IF l.coll_loaded THEN l
    ELSE [l EXCEPT !.coll_loaded = TRUE,
                   !.coll = {Fetch(l, row) : row \in Rows(l.cart)}]

Init ==
    /\ carts = {}
    /\ items = {}
    /\ req = [r \in Procs |-> Idle]

\* ------------------------------------------------------- CartRepository
\* get_cart_by_user_id: SELECT the user's cart with its items (joinedload);
\* a cart the session already holds unexpired keeps its loaded collection
LoadCart(l, c) ==
    IF l.coll_loaded /\ l.cart = c.id THEN l
    ELSE [l EXCEPT !.cart = c.id, !.coll_loaded = TRUE,
                   !.coll = {Fetch(l, row) : row \in Rows(c.id)}]

\* get_cart_by_user_id as the first statement of a method that needs the cart
SelectCart(r, here, next, missing) ==
    LET l == req[r] IN
    /\ l.pc = here
    /\ IF UserCarts(l.user_id) = {}
       THEN Set(r, Done(l, missing))
       ELSE \E c \in UserCarts(l.user_id) :
               Set(r, [LoadCart(l, c) EXCEPT !.pc = next])
    /\ UNCHANGED <<carts, items>>

\* a carts table that accepts any insert
CartInsertUnchecked(user_id) == TRUE

\* the unique constraint on carts.user_id
CartInsertAllowed(user_id) == UserCarts(user_id) = {}

\* a cart_items table that accepts any insert
ItemInsertUnchecked(cart_id, product_id) == TRUE

\* the unique constraint unique_cart_product on (cart_id, product_id)
ItemInsertAllowed(cart_id, product_id) == ItemRows(cart_id, product_id) = {}

\* get_or_create_cart, first statement: the SELECT of get_cart_by_user_id
GetOrCreateSelect(r, here, insert, next) ==
    LET l == req[r] IN
    /\ l.pc = here
    /\ IF l.broken
       THEN Set(r, Done(l, "PendingRollbackError"))
       ELSE IF UserCarts(l.user_id) = {}
       THEN Set(r, [l EXCEPT !.pc = insert, !.cart = 0])
       ELSE \E c \in UserCarts(l.user_id) :
               Set(r, [LoadCart(l, c) EXCEPT !.pc = next])
    /\ UNCHANGED <<carts, items>>

\* create_cart: INSERT, commit and refresh; the outcomes <<carts', cart id,
\* error>>.  Nothing catches the IntegrityError of a violated constraint
create_cart(user_id) ==
    IF CartInsertAllowed(user_id)
    THEN LET id == Cardinality(carts) + 1 IN
         <<carts \cup {[id |-> id, user_id |-> user_id]}, id, OK>>
    ELSE <<carts, 0, "IntegrityError carts.user_id">>

\* get_or_create_cart, second statement
GetOrCreateInsert(r, here, next) ==
    LET l == req[r]
        out == create_cart(l.user_id) IN
    /\ l.pc = here
    /\ carts' = out[1]
    /\ IF out[3] = OK
       THEN Set(r, [Expire(l) EXCEPT !.pc = next, !.cart = out[2]])
       ELSE Set(r, Done(l, out[3]))
    /\ UNCHANGED items

\* get_cart_item: SELECT ... WHERE cart_id AND product_id, first(); the
\* objects the query can return, NoItem for None
get_cart_item(l, cart_id, product_id) ==
    IF ItemRows(cart_id, product_id) = {}
    THEN {NoItem}
    ELSE {Fetch(l, row) : row \in ItemRows(cart_id, product_id)}

\* an UPDATE that writes the quantity and never the price
PriceKept(row, o, quantity, price) ==
    [row EXCEPT !.quantity = IF quantity = o.quantity THEN @ ELSE quantity]

\* an UPDATE that writes the increment where the sum belongs
QuantityReplaced(row, o, quantity, price) ==
    [row EXCEPT !.quantity = quantity - o.quantity,
                !.price = IF price = o.price THEN @ ELSE price]

\* the row an UPDATE of object o leaves: the flush sets only the columns
\* whose new value differs from the loaded one
UpdatedRow(row, o, quantity, price) ==
    [row EXCEPT !.quantity = IF quantity = o.quantity THEN @ ELSE quantity,
                !.price = IF price = o.price THEN @ ELSE price]

\* CartRepository.add_item, first statement: the existence check
RepoAddSelect(r, here, next) ==
    LET l == req[r] IN
    /\ l.pc = here
    /\ \E o \in get_cart_item(l, l.cart, l.product_id) :
         Set(r, [ToWrite(l, o) EXCEPT !.pc = next])
    /\ UNCHANGED <<carts, items>>

\* CartRepository.add_item, second statement: the outcomes <<items', error>>
\* of the UPDATE or the INSERT, then commit and refresh
RepoAddWrite(l, quantity, price) ==
    IF l.existing_item # NoItem
    THEN LET o == l.existing_item
             target == {i \in items : i.id = o.id} IN
         IF target = {}
         THEN {<<items, "StaleDataError">>}
         ELSE {<<(items \ {row})
                  \cup {UpdatedRow(row, o, o.quantity + quantity, price)}, OK>> :
                  row \in target}
    ELSE IF ItemInsertAllowed(l.cart, l.product_id)
         THEN {<<items \cup {[id |-> FreshId(l.cart, l.product_id), cart_id |-> l.cart,
                              product_id |-> l.product_id,
                              quantity |-> quantity, price |-> price]}, OK>>}
         ELSE {<<items, "IntegrityError unique_cart_product">>}

\* --------------------------------------------------- CartService.get_cart
gc_select(r) == GetOrCreateSelect(r, "gc_select", "gc_insert", "gc_enrich")
gc_insert(r) == GetOrCreateInsert(r, "gc_insert", "gc_enrich")

\* the in_stock key of a snapshot
InStockFlag(product) == IF product.stock > 0 THEN "true" ELSE "false"

\* the display fields of an item (in_result: its product is a key of the
\* batch result): product_data is {} for a product the batch result
\* lacks, so that title and image are None and in_stock is False
Display(product) ==
    IF product.found
    THEN [product_title |-> "title", product_image |-> "image",
          product_in_stock |-> InStockFlag(product)]
    ELSE [product_title |-> "null", product_image |-> "null",
          product_in_stock |-> "false"]

\* a response that counts the calls
ResponseCounting(l, products) ==
    [cart |-> l.cart,
     total_items |-> SumQuantity(l.coll) + Bit(l.prev.op = l.op),
     subtotal |-> Subtotal(l.coll),
     items |-> {[product_id |-> o.product_id, quantity |-> o.quantity,
                 price |-> o.price,
                 in_result |-> products[o.product_id].found,
                 display |-> Display(products[o.product_id])] : o \in l.coll}]

\* the CartResponse: totals recomputed from the loaded items, display
\* fields from the batch result
CartResponse(l, products) ==
    [cart |-> l.cart,
     total_items |-> SumQuantity(l.coll),
     subtotal |-> Subtotal(l.coll),
     items |-> {[product_id |-> o.product_id, quantity |-> o.quantity,
                 price |-> o.price,
                 in_result |-> products[o.product_id].found,
                 display |-> Display(products[o.product_id])] : o \in l.coll}]

\* a get_cart that brings the stored prices up to the batch result
gc_enrich_repricing(r, B) ==
    LET l == WithItems(req[r])
        ids == {o.product_id : o \in l.coll} IN
    /\ req[r].pc = "gc_enrich"
    /\ \E products \in get_products_batch(B, ids) :
         /\ Set(r, [Done(l, OK) EXCEPT
                      !.response = CartResponse(l, products),
                      !.catalog_called = @ \/ ids # {}])
         /\ items' = {IF i.cart_id = l.cart /\ products[i.product_id].found
                      THEN [i EXCEPT !.price = products[i.product_id].price]
                      ELSE i : i \in items}
    /\ UNCHANGED carts

\* _enrich_cart_items (one batch fetch for all items, none for an empty
\* cart) and the response
gc_enrich(r, B) ==
    LET l == WithItems(req[r])
        ids == {o.product_id : o \in l.coll} IN
    /\ req[r].pc = "gc_enrich"
    /\ \E products \in get_products_batch(B, ids) :
         Set(r, [Done(l, OK) EXCEPT
                   !.response = CartResponse(l, products),
                   !.catalog_called = @ \/ ids # {}])
    /\ UNCHANGED <<carts, items>>

\* --------------------------------------------------- CartService.add_item
add_goc_select(r) ==
    GetOrCreateSelect(r, "add_goc_select", "add_goc_insert", "add_get_product")
add_goc_insert(r) == GetOrCreateInsert(r, "add_goc_insert", "add_get_product")

\* a validation that tests is_active before the presence of the snapshot
InactiveFirst(product) ==
    IF ~product.is_active THEN "Product is not available"
    ELSE IF ~product.found THEN "Product not found"
    ELSE OK

\* the validation of the snapshot: not found is checked before not active
ProductError(product) ==
    IF ~product.found THEN "Product not found"
    ELSE IF ~product.is_active THEN "Product is not available"
    ELSE OK

\* fetch the snapshot and validate it
add_get_product(r, C) ==
    LET l == req[r] IN
    /\ l.pc = "add_get_product"
    /\ \E product \in get_product(C) :
         LET m == [l EXCEPT !.product = product, !.catalog_called = TRUE] IN
         IF ProductError(product) # OK
         THEN Set(r, Done(m, ProductError(product)))
         ELSE Set(r, [m EXCEPT !.pc = "add_get_cart_item"])
    /\ UNCHANGED <<carts, items>>

\* a new quantity that leaves out what the cart holds
RequestedOnly(quantity, current_item) == quantity

\* new_quantity = request.quantity + (current_item.quantity if current_item else 0)
NewQuantity(quantity, current_item) ==
    quantity + (IF current_item # NoItem THEN current_item.quantity ELSE 0)

\* if product.get('stock', 0) < new_quantity: raise ValueError
StockSufficient(product, new_quantity) == ~(product.stock < new_quantity)

\* the current line item and the stock check; "Insufficient stock" stands
\* for the message that starts with these words
add_get_cart_item(r) ==
    LET l == req[r] IN
    /\ l.pc = "add_get_cart_item"
    /\ \E o \in get_cart_item(l, l.cart, l.product_id) :
         LET m == [l EXCEPT !.current_item = o] IN
         IF StockSufficient(m.product, NewQuantity(m.quantity, o))
         THEN Set(r, [m EXCEPT !.pc = "add_repo_select"])
         ELSE Set(r, Done(m, "Insufficient stock"))
    /\ UNCHANGED <<carts, items>>

add_repo_select(r) == RepoAddSelect(r, "add_repo_select", "add_repo_write")

\* repository.add_item, second statement, then return get_cart(user_id)
add_repo_write(r) ==
    LET l == req[r] IN
    /\ l.pc = "add_repo_write"
    /\ \E out \in RepoAddWrite(l, l.quantity, l.product.price) :
         /\ items' = out[1]
         /\ IF out[2] = OK
            THEN Set(r, ToGetCart(Expire(l)))
            ELSE Set(r, Done(l, out[2]))
    /\ UNCHANGED carts

\* ------------------------------------------------ CartService.update_item
upd_select_cart(r) == SelectCart(r, "upd_select_cart", "upd_get_item", "Cart not found")

\* an update_item that goes on to the catalog without an item
upd_item_unchecked(r) ==
    LET l == req[r] IN
    /\ l.pc = "upd_get_item"
    /\ \E o \in get_cart_item(l, l.cart, l.product_id) :
         Set(r, [l EXCEPT !.current_item = o, !.pc = "upd_check"])
    /\ UNCHANGED <<carts, items>>

\* the item must be in the cart
upd_get_item(r) ==
    LET l == req[r] IN
    /\ l.pc = "upd_get_item"
    /\ \E o \in get_cart_item(l, l.cart, l.product_id) :
         IF o = NoItem
         THEN Set(r, Done(l, "Item not in cart"))
         ELSE Set(r, [l EXCEPT !.current_item = o, !.pc = "upd_check"])
    /\ UNCHANGED <<carts, items>>

\* an availability that trusts a product it cannot fetch
AvailableUnlessKnown(product, quantity) ==
    ~product.found \/ (product.is_active /\ product.stock >= quantity)

\* an availability that looks at no stock
StockIgnored(product, quantity) == product.found /\ product.is_active

\* check_product_availability: found, active and stock >= quantity
check_product_availability(product, quantity) ==
    product.found /\ product.is_active /\ product.stock >= quantity

\* the availability check against the absolute requested quantity
upd_check(r, C) ==
    LET l == req[r] IN
    /\ l.pc = "upd_check"
    /\ \E product \in get_product(C) :
         LET m == [l EXCEPT !.product = product, !.catalog_called = TRUE] IN
         IF check_product_availability(product, l.quantity)
         THEN Set(r, [m EXCEPT !.pc = "upd_repo_select"])
         ELSE Set(r, Done(m, "Requested quantity not available"))
    /\ UNCHANGED <<carts, items>>

\* update_item_quantity, first statement; a missing item returns None, which
\* the service ignores
upd_repo_select(r) ==
    LET l == req[r] IN
    /\ l.pc = "upd_repo_select"
    /\ \E o \in get_cart_item(l, l.cart, l.product_id) :
         IF o = NoItem
         THEN Set(r, ToGetCart(l))
         ELSE Set(r, [ToWrite(l, o) EXCEPT !.pc = "upd_repo_write"])
    /\ UNCHANGED <<carts, items>>

\* an update that writes the row back when it is gone
update_or_insert(o, quantity) ==
    LET target == {i \in items : i.id = o.id} IN
    IF target = {}
    THEN {<<items \cup {[o EXCEPT !.id = FreshId(o.cart_id, o.product_id),
                                  !.quantity = quantity]}, OK>>}
    ELSE {<<(items \ {row}) \cup {[row EXCEPT !.quantity = quantity]}, OK>> :
             row \in target}

\* update_item_quantity, second statement: the outcomes <<items', error>> of
\* item.quantity = quantity, commit, refresh
update_item_quantity(o, quantity) ==
    LET target == {i \in items : i.id = o.id} IN
    IF target = {}
    THEN {<<items, IF quantity = o.quantity THEN "InvalidRequestError"
                   ELSE "StaleDataError">>}
    ELSE {<<(items \ {row}) \cup {UpdatedRow(row, o, quantity, o.price)}, OK>> :
             row \in target}

\* update_item_quantity, second statement, then return get_cart(user_id)
upd_repo_write(r) ==
    LET l == req[r] IN
    /\ l.pc = "upd_repo_write"
    /\ \E out \in update_item_quantity(l.existing_item, l.quantity) :
         /\ items' = out[1]
         /\ IF out[2] = OK
            THEN Set(r, ToGetCart(Expire(l)))
            ELSE Set(r, Done(l, out[2]))
    /\ UNCHANGED carts

\* ------------------------------------------------ CartService.remove_item
rm_select_cart(r) == SelectCart(r, "rm_select_cart", "rm_repo_select", "Cart not found")

\* CartRepository.remove_item, first statement: the item, or False
rm_repo_select(r) ==
    LET l == req[r] IN
    /\ l.pc = "rm_repo_select"
    /\ \E o \in get_cart_item(l, l.cart, l.product_id) :
         IF o = NoItem
         THEN Set(r, Done(l, "Item not in cart"))
         ELSE Set(r, [ToWrite(l, Expired(o)) EXCEPT !.pc = "rm_repo_delete"])
    /\ UNCHANGED <<carts, items>>

\* a DELETE without its WHERE clause
DeleteEvery(r, l, ids) ==
    /\ items' = {}
    /\ req' = [s \in Procs |-> IF s = r THEN l ELSE Kill(req[s], {i.id : i \in items})]

\* the rows with these keys are deleted by request r, whose locals become l
Delete(r, l, ids) ==
    /\ items' = {i \in items : i.id \notin ids}
    /\ req' = [s \in Procs |-> IF s = r THEN l ELSE Kill(req[s], ids)]

\* db.delete(item), commit: DELETE ... WHERE id
rm_repo_delete(r) ==
    LET l == req[r] IN
    /\ l.pc = "rm_repo_delete"
    /\ Delete(r, ToGetCart(Expire(l)), {l.existing_item.id})
    /\ UNCHANGED carts

\* ------------------------------------------------- CartService.clear_cart
clr_select_cart(r) == SelectCart(r, "clr_select_cart", "clr_repo_select", "Cart not found")

\* CartRepository.clear_cart, first statement: SELECT the cart by id; the
\* service's False is the route's 404 "Cart not found"
clr_repo_select(r) ==
    LET l == req[r] IN
    /\ l.pc = "clr_repo_select"
    /\ IF \E c \in carts : c.id = l.cart
       THEN Set(r, [l EXCEPT !.pc = "clr_delete"])
       ELSE Set(r, Done(l, "Cart not found"))
    /\ UNCHANGED <<carts, items>>

\* DELETE FROM cart_items WHERE cart_id, commit
clr_delete(r) ==
    LET l == req[r] IN
    /\ l.pc = "clr_delete"
    /\ Delete(r, Done(l, OK), {i.id : i \in Rows(l.cart)})
    /\ UNCHANGED carts

\* --------------------------------------------- CartService.add_items_bulk
bulk_goc_select(r) ==
    GetOrCreateSelect(r, "bulk_goc_select", "bulk_goc_insert", "bulk_get_product")
bulk_goc_insert(r) == GetOrCreateInsert(r, "bulk_goc_insert", "bulk_get_product")

\* the for loop: the next item_request; after the last one the method
\* returns its counts and the route calls get_cart in the same session
NextItem(l) ==
    IF l.idx < Len(l.batch)
    THEN [l EXCEPT !.idx = @ + 1, !.pc = "bulk_get_product",
                   !.product_id = l.batch[l.idx + 1].product_id,
                   !.quantity = l.batch[l.idx + 1].quantity,
                   !.product = NotFound, !.existing_item = NoItem]
    ELSE ToGetCart([l EXCEPT !.product = NotFound])

\* failed_count += 1; errors.append(...)
Failed(l, error) == [l EXCEPT !.failed = @ + 1, !.errors = Append(@, error)]

\* validate the product and check the stock against the requested quantity
bulk_get_product(r, C) ==
    LET l == req[r] IN
    /\ l.pc = "bulk_get_product"
    /\ \E product \in get_product(C) :
         LET m == [l EXCEPT !.product = product, !.catalog_called = TRUE] IN
         IF ~product.found \/ ~product.is_active
         THEN Set(r, NextItem(Failed(m, "not available")))
         ELSE IF product.stock < l.quantity
         THEN Set(r, NextItem(Failed(m, "insufficient stock")))
         ELSE Set(r, [m EXCEPT !.passed = @ \cup {l.idx}, !.pc = "bulk_repo_select"])
    /\ UNCHANGED <<carts, items>>

\* repository.add_item inside the try, first statement; in a session whose
\* commit has failed the query raises, which counts one more failure
bulk_repo_select(r) ==
    IF req[r].broken
    THEN /\ req[r].pc = "bulk_repo_select"
         /\ Set(r, NextItem(Failed(req[r], "PendingRollbackError")))
         /\ UNCHANGED <<carts, items>>
    ELSE RepoAddSelect(r, "bulk_repo_select", "bulk_repo_write")

\* repository.add_item inside the try, second statement: an exception counts
\* one failure, and nothing rolls the session back
bulk_repo_write(r) ==
    LET l == req[r] IN
    /\ l.pc = "bulk_repo_write"
    /\ \E out \in RepoAddWrite(l, l.quantity, l.product.price) :
         /\ items' = out[1]
         /\ IF out[2] = OK
            THEN Set(r, NextItem([Expire(l) EXCEPT !.success = @ + 1]))
            ELSE Set(r, NextItem(Failed([Expire(l) EXCEPT !.broken = TRUE], out[2])))
    /\ UNCHANGED carts

\* ------------------------------------------------ CartService.sync_prices
\* no cart or no items: straight to get_cart
sync_select(r) ==
    LET l == req[r] IN
    /\ l.pc = "sync_select"
    /\ IF UserCarts(l.user_id) = {}
       THEN Set(r, ToGetCart(l))
       ELSE \E c \in UserCarts(l.user_id) :
               LET m == LoadCart(l, c) IN
               Set(r, IF m.coll = {} THEN ToGetCart(m) ELSE [m EXCEPT !.pc = "sync_fetch"])
    /\ UNCHANGED <<carts, items>>

\* one batch fetch for the product ids of the cart's items
sync_fetch(r, B) ==
    LET l == req[r]
        ids == {o.product_id : o \in l.coll} IN
    /\ l.pc = "sync_fetch"
    /\ \E products \in get_products_batch(B, ids) :
         Set(r, [l EXCEPT !.products = products, !.fetched = products,
                          !.todo = l.coll,
                          !.catalog_called = TRUE, !.pc = "sync_next"])
    /\ UNCHANGED <<carts, items>>

\* one iteration of the loop up to the price comparison; an expired item is
\* reloaded by primary key when its attributes are read
sync_next(r) ==
    LET l == req[r] IN
    /\ l.pc = "sync_next"
    /\ IF l.todo = {}
       THEN Set(r, ToGetCart(l))
       ELSE \E t \in l.todo :
              LET row == {i \in items : i.id = t.id} IN
              IF t = Expired(t) /\ row = {}
              THEN Set(r, Done(l, "ObjectDeletedError"))
              ELSE \E o \in (IF t = Expired(t) THEN row ELSE {t}) :
                     LET live == l.products[o.product_id] IN
                     IF live.found /\ live.price # o.price
                     THEN Set(r, [l EXCEPT !.todo = @ \ {t}, !.current_item = o,
                                           !.pc = "sync_upd_select"])
                     ELSE Set(r, [l EXCEPT !.todo = @ \ {t}])
    /\ UNCHANGED <<carts, items>>

\* update_item_price, first statement: SELECT by id; no row returns None
sync_upd_select(r) ==
    LET l == req[r]
        row == {i \in items : i.id = l.current_item.id} IN
    /\ l.pc = "sync_upd_select"
    /\ IF row = {}
       THEN Set(r, [l EXCEPT !.current_item = NoItem, !.pc = "sync_next"])
       ELSE \E i \in row :
              Set(r, [ToWrite(l, Fetch(l, i)) EXCEPT !.pc = "sync_upd_write"])
    /\ UNCHANGED <<carts, items>>

\* a price update that writes nothing
price_not_written(o, price) == {<<items, OK>>}

\* update_item_price, second statement: item.price = price, commit, refresh
update_item_price(o, price) ==
    LET target == {i \in items : i.id = o.id} IN
    IF target = {}
    THEN {<<items, IF price = o.price THEN "InvalidRequestError" ELSE "StaleDataError">>}
    ELSE {<<(items \ {row}) \cup {UpdatedRow(row, o, o.quantity, price)}, OK>> :
             row \in target}

\* update_item_price, second statement, back in the loop
sync_upd_write(r) ==
    LET l == req[r]
        o == l.existing_item IN
    /\ l.pc = "sync_upd_write"
    /\ \E out \in update_item_price(o, l.products[o.product_id].price) :
         /\ items' = out[1]
         /\ IF out[2] = OK
            THEN Set(r, [Expire(l) EXCEPT !.pc = "sync_next"])
            ELSE Set(r, Done(l, out[2]))
    /\ UNCHANGED carts

\* ------------------------------------------- CartService.get_cart_summary
sum_goc_select(r) == GetOrCreateSelect(r, "sum_goc_select", "sum_goc_insert", "sum_respond")
sum_goc_insert(r) == GetOrCreateInsert(r, "sum_goc_insert", "sum_respond")

\* the CartSummary: the totals of the loaded items, no catalog call
sum_respond(r) ==
    LET l == WithItems(req[r]) IN
    /\ req[r].pc = "sum_respond"
    /\ Set(r, [Done(l, OK) EXCEPT !.response = [NoResponse EXCEPT
                                                  !.cart = l.cart,
                                                  !.total_items = SumQuantity(l.coll),
                                                  !.subtotal = Subtotal(l.coll)]])
    /\ UNCHANGED <<carts, items>>

\* ------------------------------------------- CartService.prepare_checkout
\* a checkout that creates the cart it misses
chk_select_or_create(r) == GetOrCreateSelect(r, "chk_select", "gc_insert", "chk_validate")

\* a checkout that validates a cart without items
chk_select_unchecked(r) ==
    LET l == req[r] IN
    /\ l.pc = "chk_select"
    /\ IF UserCarts(l.user_id) = {}
       THEN Set(r, Done(l, "Cart is empty"))
       ELSE \E c \in UserCarts(l.user_id) :
               Set(r, [LoadCart(l, c) EXCEPT !.pc = "chk_validate"])
    /\ UNCHANGED <<carts, items>>

\* no cart, or a cart without items: "Cart is empty"
chk_select(r) ==
    LET l == req[r] IN
    /\ l.pc = "chk_select"
    /\ IF UserCarts(l.user_id) = {}
       THEN Set(r, Done(l, "Cart is empty"))
       ELSE \E c \in UserCarts(l.user_id) :
               LET m == LoadCart(l, c) IN
               Set(r, IF m.coll = {} THEN Done(m, "Cart is empty")
                      ELSE [m EXCEPT !.pc = "chk_validate"])
    /\ UNCHANGED <<carts, items>>

\* a validation that looks at no stock
ReasonWithoutStock(product, quantity) ==
    IF ~product.found THEN "Product not found"
    ELSE IF ~product.is_active THEN "Product is not active"
    ELSE OK

\* a validation that looks at the stock before it looks at is_active
StockFirst(product, quantity) ==
    IF ~product.found THEN "Product not found"
    ELSE IF product.stock < quantity THEN "Insufficient stock"
    ELSE IF ~product.is_active THEN "Product is not active"
    ELSE OK

\* the reason validate_products gives for an item: not found, then not
\* active, then the stock
InvalidReason(product, quantity) ==
    IF ~product.found THEN "Product not found"
    ELSE IF ~product.is_active THEN "Product is not active"
    ELSE IF product.stock < quantity THEN "Insufficient stock"
    ELSE OK

\* validate_products: each item goes to the invalid list with the first
\* reason that applies, or else to the valid list; "Insufficient stock"
\* stands for the reason that starts with these words
validate_products(products, coll) ==
    LET reason(o) == InvalidReason(products[o.product_id], o.quantity) IN
    [valid |-> {[product_id |-> o.product_id, quantity |-> o.quantity,
                 price |-> products[o.product_id].price] :
                   o \in {x \in coll : reason(x) = OK}},
     invalid |-> {[product_id |-> o.product_id, reason |-> reason(o)] :
                     o \in {x \in coll : reason(x) # OK}}]

\* one batch fetch for the items of the cart, and their validation
chk_validate(r, V) ==
    LET l == req[r]
        ids == {o.product_id : o \in l.coll} IN
    /\ l.pc = "chk_validate"
    /\ \E products \in get_products_batch(V, ids) :
         LET validation == validate_products(products, l.coll) IN
         Set(r, [l EXCEPT !.fetched = products,
                          !.valid = validation.valid,
                          !.invalid = validation.invalid,
                          !.unavailable = {x.product_id : x \in validation.invalid},
                          !.catalog_called = TRUE, !.pc = "chk_enrich"])
    /\ UNCHANGED <<carts, items>>

\* _enrich_cart_items (a second batch fetch) and the CheckoutResponse
chk_enrich(r, B) ==
    LET l == req[r]
        ids == {o.product_id : o \in l.coll} IN
    /\ l.pc = "chk_enrich"
    /\ \E products \in get_products_batch(B, ids) :
         Set(r, [Done(l, OK) EXCEPT
                   !.response = CartResponse(l, products),
                   !.available_for_checkout = (l.unavailable = {})])
    /\ UNCHANGED <<carts, items>>

\* ------------------------------------------------- ProductServiceClient
\* a call of get_product for product p, whatever the product service answers
gw_get_product(r) ==
    /\ \A s \in Procs : req[s].pc = "idle"
    /\ \E p \in Products, a \in Answers(Snapshots) :
         LET out == get_product_for(a) IN
         Set(r, [Idle EXCEPT !.op = "get_product", !.pc = "done",
                             !.product_id = p, !.ids = {p},
                             !.answers = [q \in Products |-> IF q = p THEN a ELSE NoAnswer],
                             !.product = out.product,
                             !.result = IF out.raised = "none" THEN OK ELSE out.raised])
    /\ UNCHANGED <<carts, items>>

\* a call of get_products_batch for the ids, whatever the product service
\* answers each fetch with
gw_get_products_batch(r) ==
    /\ \A s \in Procs : req[s].pc = "idle"
    /\ \E ids \in SUBSET Products :
         \E a \in [ids -> Answers(Snapshots)] :
            LET answers == [q \in Products |-> IF q \in ids THEN a[q] ELSE NoAnswer]
                out == get_products_batch_for(ids, answers) IN
            Set(r, [Idle EXCEPT !.op = "get_products_batch", !.pc = "done",
                                !.ids = ids, !.answers = answers,
                                !.fetched = out.results,
                                !.result = IF out.raised = "none" THEN OK ELSE out.raised])
    /\ UNCHANGED <<carts, items>>

\* ------------------------------------------------------------ requests
\* the item lists of a bulk request, and those of full length
Batches(P, Q) == UNION {[1..n -> [product_id : P, quantity : Q]] : n \in 1..MaxBulk}
FullBatches(P, Q) == {b \in Batches(P, Q) : Len(b) = MaxBulk}

\* the requests of the API, at the first statement of their service method
GetCartReq(u) == [Idle EXCEPT !.op = "get_cart", !.pc = "gc_select", !.user_id = u]
AddItemReq(u, p, q) ==
    [Idle EXCEPT !.op = "add_item", !.pc = "add_goc_select", !.user_id = u,
                 !.product_id = p, !.quantity = q]
UpdateItemReq(u, p, q) ==
    [Idle EXCEPT !.op = "update_item", !.pc = "upd_select_cart", !.user_id = u,
                 !.product_id = p, !.quantity = q]
RemoveItemReq(u, p) ==
    [Idle EXCEPT !.op = "remove_item", !.pc = "rm_select_cart", !.user_id = u,
                 !.product_id = p]
ClearCartReq(u) == [Idle EXCEPT !.op = "clear_cart", !.pc = "clr_select_cart", !.user_id = u]
SyncPricesReq(u) == [Idle EXCEPT !.op = "sync_prices", !.pc = "sync_select", !.user_id = u]
BulkReq(u, b) ==
    [Idle EXCEPT !.op = "add_items_bulk", !.pc = "bulk_goc_select", !.user_id = u,
                 !.batch = b, !.idx = 1,
                 !.product_id = b[1].product_id, !.quantity = b[1].quantity]

SummaryReq(u) ==
    [Idle EXCEPT !.op = "get_cart_summary", !.pc = "sum_goc_select", !.user_id = u]
CheckoutReq(u) ==
    [Idle EXCEPT !.op = "prepare_checkout", !.pc = "chk_select", !.user_id = u]

Requests(U, P, Q, batches) ==
    {GetCartReq(u) : u \in U}
    \cup {AddItemReq(u, p, q) : u \in U, p \in P, q \in Q}
    \cup {UpdateItemReq(u, p, q) : u \in U, p \in P, q \in Q}
    \cup {RemoveItemReq(u, p) : u \in U, p \in P}
    \cup {ClearCartReq(u) : u \in U}
    \cup {SyncPricesReq(u) : u \in U}
    \cup {BulkReq(u, b) : u \in U, b \in batches}

\* with the two operations that only read
AllRequests(U, P, Q, batches) ==
    Requests(U, P, Q, batches)
    \cup {SummaryReq(u) : u \in U}
    \cup {CheckoutReq(u) : u \in U}

\* add_items_bulk checks no cumulative quantity, so repeated batches grow a
\* line item without limit: a batch arrives only while the quantities it
\* asks for, on top of what the store and the requests in flight hold and
\* may still add, fit under MaxCartQuantity
RECURSIVE BatchQuantity(_, _)
BatchQuantity(b, p) ==
    IF b = <<>> THEN 0
    ELSE (IF Head(b).product_id = p THEN Head(b).quantity ELSE 0) + BatchQuantity(Tail(b), p)

Known(user_id, p) ==
    LET ids == {c.id : c \in UserCarts(user_id)} IN
    {0} \cup {i.quantity : i \in {x \in items : x.cart_id \in ids /\ x.product_id = p}}
        \cup UNION {{o.quantity : o \in {x \in Held(req[s]) :
                                           x.cart_id \in ids /\ x.product_id = p}} :
                    s \in Procs}

InFlight(l, user_id, p) ==
    IF l.pc \in {"idle", "done"} \/ l.user_id # user_id THEN 0
    ELSE IF l.op = "add_items_bulk" THEN BatchQuantity(l.batch, p)
    ELSE IF l.op = "add_item" /\ l.product_id = p THEN l.quantity
    ELSE 0

RECURSIVE SumInFlight(_, _, _)
SumInFlight(S, user_id, p) ==
    IF S = {} THEN 0
    ELSE LET s == CHOOSE x \in S : TRUE IN
         InFlight(req[s], user_id, p) + SumInFlight(S \ {s}, user_id, p)

Admissible(r, l) ==
    \A p \in Products :
       BatchQuantity(l.batch, p) > 0 =>
          \A k \in Known(l.user_id, p) :
             k + SumInFlight(Procs \ {r}, l.user_id, p) + BatchQuantity(l.batch, p)
                <= MaxCartQuantity

\* a request arrives; requests are served concurrently
Begin(r, R) ==
    /\ req[r].pc = "idle"
    /\ \E l \in R : Admissible(r, l) /\ Set(r, l)
    /\ UNCHANGED <<carts, items>>

\* a request arrives while no other is in flight; pre and pre_carts keep
\* the store it finds
BeginAlone(r, R) ==
    /\ \A s \in Procs : req[s].pc = "idle"
    /\ \E l \in R : Admissible(r, l)
                    /\ Set(r, [l EXCEPT !.pre = items, !.pre_carts = carts])
    /\ UNCHANGED <<carts, items>>

\* the rows of the carts of user u, among rows
OfUser(rows, user_carts, u) ==
    {i \in rows : \E c \in user_carts : c.user_id = u /\ c.id = i.cart_id}

\* a request arrives, whatever else is in flight; pre and pre_carts keep
\* what the store holds for its user
BeginOwn(r, R) ==
    /\ req[r].pc = "idle"
    /\ \E l \in R :
         /\ Admissible(r, l)
         /\ Set(r, [l EXCEPT !.pre = OfUser(items, carts, l.user_id),
                             !.pre_carts = UserCarts(l.user_id)])
    /\ UNCHANGED <<carts, items>>

\* two add_item requests of one user for one product arrive together
BeginPair(U, P, Q) ==
    /\ \A s \in Procs : req[s].pc = "idle"
    /\ \E u \in U, p \in P, q \in [Procs -> Q] :
         req' = [s \in Procs |->
                   [AddItemReq(u, p, q[s]) EXCEPT !.pre = items, !.pre_carts = carts]]
    /\ UNCHANGED <<carts, items>>

\* the response is sent
Return(r) ==
    /\ req[r].pc = "done"
    /\ Set(r, Idle)
    /\ UNCHANGED <<carts, items>>

\* the outcome of a get_cart or a prepare_checkout, to compare the next
\* response with
Outcome(l) ==
    IF l.op \in {"get_cart", "prepare_checkout"}
    THEN [op |-> l.op, user_id |-> l.user_id, result |-> l.result,
          total_items |-> l.response.total_items,
          subtotal |-> l.response.subtotal,
          available_for_checkout |-> l.available_for_checkout,
          fetched |-> l.fetched, cart_created |-> carts # l.pre_carts]
    ELSE NoPrev

\* the response is sent and its outcome remembered as the last one
ReturnKeep(r) ==
    /\ req[r].pc = "done"
    /\ req' = [s \in Procs |-> [Idle EXCEPT !.prev = IF s = r THEN Outcome(req[r])
                                                     ELSE NoPrev]]
    /\ UNCHANGED <<carts, items>>

\* a request arrives while no other is in flight, the outcome of the last
\* response with it
BeginAfter(r, R) ==
    /\ \A s \in Procs : req[s].pc = "idle"
    /\ \E l \in R, last \in Procs :
         /\ \A s \in Procs \ {last} : req[s].prev = NoPrev
         /\ Admissible(r, l)
         /\ req' = [s \in Procs |->
                      IF s = r THEN [l EXCEPT !.pre = items, !.pre_carts = carts,
                                              !.prev = req[last].prev]
                      ELSE Idle]
    /\ UNCHANGED <<carts, items>>

\* the ValueError messages of the service, with the False of clear_cart
\* that its route words "Cart not found"
ValueErrors ==
    {"Product not found", "Product is not available", "Insufficient stock",
     "Cart not found", "Item not in cart", "Requested quantity not available",
     "Cart is empty"}

\* the status code of the route: every route but clear_cart catches
\* ValueError, update_item and remove_item answer it with 404 and the other
\* routes with 400; clear_cart answers 404 to False; add_item answers 201
\* on success; an exception that is no ValueError is a 500
http_status(op, result) ==
    IF result = OK THEN (IF op = "add_item" THEN 201 ELSE 200)
    ELSE IF result \notin ValueErrors THEN 500
    ELSE IF op \in {"update_item", "remove_item", "clear_cart"} THEN 404
    ELSE 400

GetCart(r, B) == gc_select(r) \/ gc_insert(r) \/ gc_enrich(r, B)

AddItem(r, C) ==
    \/ add_goc_select(r) \/ add_goc_insert(r) \/ add_get_product(r, C)
    \/ add_get_cart_item(r) \/ add_repo_select(r) \/ add_repo_write(r)

UpdateItem(r, C) ==
    \/ upd_select_cart(r) \/ upd_get_item(r) \/ upd_check(r, C)
    \/ upd_repo_select(r) \/ upd_repo_write(r)

RemoveItem(r) == rm_select_cart(r) \/ rm_repo_select(r) \/ rm_repo_delete(r)

ClearCart(r) == clr_select_cart(r) \/ clr_repo_select(r) \/ clr_delete(r)

AddItemsBulk(r, C) ==
    \/ bulk_goc_select(r) \/ bulk_goc_insert(r) \/ bulk_get_product(r, C)
    \/ bulk_repo_select(r) \/ bulk_repo_write(r)

SyncPrices(r, B) ==
    \/ sync_select(r) \/ sync_fetch(r, B) \/ sync_next(r)
    \/ sync_upd_select(r) \/ sync_upd_write(r)

Work(r, C, B) ==
    \/ GetCart(r, B) \/ AddItem(r, C) \/ UpdateItem(r, C) \/ RemoveItem(r)
    \/ ClearCart(r) \/ AddItemsBulk(r, C) \/ SyncPrices(r, B)

Step(r, C, B) == Work(r, C, B) \/ Return(r)

GetCartSummary(r) == sum_goc_select(r) \/ sum_goc_insert(r) \/ sum_respond(r)

PrepareCheckout(r, B, V) == chk_select(r) \/ chk_validate(r, V) \/ chk_enrich(r, B)

\* V is the set of snapshots the catalog answers the fetches of a checkout
\* validation with
StepAll(r, C, B, V) ==
    Step(r, C, B) \/ GetCartSummary(r) \/ PrepareCheckout(r, B, V)

\* the answers of a catalog that has the product on sale and in stock, at
\* either price
InStock == {s \in Snapshots : s.is_active /\ s.stock = MaxStock}

\* two requests of one user for one product in flight at a time, the
\* product in stock or missing
Next ==
    \E r \in Procs :
       \/ Begin(r, Requests({"u1"}, {"p1"}, {MinQuantity},
                            FullBatches({"p1"}, {MinQuantity})))
       \/ Step(r, InStock, InStock)
Spec == Init /\ [][Next]_vars

\* one request at a time, for either product and any answer to a single
\* fetch
NextSeq ==
    \E r \in Procs :
       \/ BeginAlone(r, AllRequests({"u1"}, Products, Quantities,
                                    Batches(Products, {MinQuantity})))
       \/ StepAll(r, Snapshots, InStock, Snapshots)
SpecSeq == Init /\ [][NextSeq]_vars

\* one request at a time, or one pair of add_item requests
NextPair ==
    \/ BeginPair({"u1"}, {"p1"}, Quantities)
    \/ \E r \in Procs :
          \/ BeginAlone(r, Requests({"u1"}, {"p1"}, Quantities,
                                    Batches({"p1"}, {MinQuantity})))
          \/ Step(r, InStock, InStock)
SpecPair == Init /\ [][NextPair]_vars

\* one request at a time for one product, each response compared with the
\* one before
NextTwice ==
    \E r \in Procs :
       \/ BeginAfter(r, AllRequests({"u1"}, {"p1"}, Quantities,
                                    Batches({"p1"}, {MinQuantity})))
       \/ Work(r, InStock, InStock)
       \/ GetCartSummary(r)
       \/ PrepareCheckout(r, InStock, Snapshots)
       \/ ReturnKeep(r)
SpecTwice == Init /\ [][NextTwice]_vars

\* two requests of one user for one product in flight at a time, the two
\* operations that only read among them
NextAll ==
    \E r \in Procs :
       \/ Begin(r, AllRequests({"u1"}, {"p1"}, {MinQuantity},
                               FullBatches({"p1"}, {MinQuantity})))
       \/ StepAll(r, InStock, InStock, InStock)
SpecAll == Init /\ [][NextAll]_vars

\* the answers of a catalog that has more of the product than two requests
\* of the largest quantity ask for
Plenty == [found : {TRUE}, is_active : {TRUE}, stock : {2 * MaxQuantity}, price : {10}]

\* one request at a time that adds or sets a quantity, of the smallest or
\* the largest quantity the DTOs accept
NextLimit ==
    \E r \in Procs :
       \/ BeginAlone(r, {AddItemReq("u1", "p1", q) : q \in {MinQuantity, MaxQuantity}}
                        \cup {UpdateItemReq("u1", "p1", q) : q \in {MinQuantity, MaxQuantity}}
                        \cup {BulkReq("u1", b) : b \in Batches({"p1"}, {MinQuantity})})
       \/ GetCart(r, Plenty) \/ AddItem(r, Plenty) \/ UpdateItem(r, Plenty)
       \/ AddItemsBulk(r, Plenty) \/ Return(r)
SpecLimit == Init /\ [][NextLimit]_vars

\* the catalog gateway alone, one call at a time
NextGateway ==
    \E r \in Procs : gw_get_product(r) \/ gw_get_products_batch(r) \/ Return(r)
SpecGateway == Init /\ [][NextGateway]_vars

\* two users at a time: every operation for one of them, while the other
\* fills and empties a cart of their own
NextUsers ==
    \/ BeginOwn("r1", AllRequests({"u1"}, {"p1"}, {MinQuantity},
                                  Batches({"p1"}, {MinQuantity})))
    \/ BeginOwn("r2", {AddItemReq("u2", "p1", q) : q \in Quantities}
                      \cup {RemoveItemReq("u2", "p1"), ClearCartReq("u2")})
    \/ \E r \in Procs : StepAll(r, InStock, InStock, InStock)
SpecUsers == Init /\ [][NextUsers]_vars

\* what the store holds
TypeOK ==
    /\ \A c \in carts : c.user_id \in Users
    /\ \A i \in items : i.product_id \in Products /\ i.quantity >= 1

\* ------------------------------------------------------------- properties
\* the requests of operation op whose outcome is known and not yet sent
Finished(op) == {r \in Procs : req[r].pc = "done" /\ req[r].op = op}

\* the line items of request l's product in the cart of its user, among rows
LineItems(l, rows, user_carts) ==
    {i \in rows : i.product_id = l.product_id
                  /\ \E c \in user_carts : c.user_id = l.user_id /\ c.id = i.cart_id}

Before(l) == LineItems(l, l.pre, l.pre_carts)
After(l) == LineItems(l, items, carts)

\* C1: in every reachable state, under any interleaving of the operations,
\* there is at most one line item per (cart_id, product_id) pair
C1_UniqueLineItem ==
    \A i, j \in items :
       (i.cart_id = j.cart_id /\ i.product_id = j.product_id) => i = j

\* the constraint has acted: an insert raced another and was rejected
C1_Witness ==
    /\ items # {}
    /\ \E r \in Procs : /\ req[r].pc = "done"
                        /\ req[r].result = "IntegrityError unique_cart_product"

\* the two requests of a pair, both finished and both past validation
PairValidated ==
    \A r \in Procs :
       /\ r \in Finished("add_item")
       /\ ProductError(req[r].product) = OK
       /\ req[r].result # "Insufficient stock"

\* C2: two concurrent add_item calls for the same user and product that both
\* pass validation both complete without error, and the line item's quantity
\* is the previous quantity plus both requested quantities
C2_ConcurrentAddsAccumulate ==
    PairValidated =>
       /\ \A r \in Procs : req[r].result = OK
       /\ \A r, s \in Procs :
             r # s => SumQuantity(After(req[r])) =
                         SumQuantity(Before(req[r])) + req[r].quantity + req[s].quantity

\* C3: two concurrent first accesses of a user with no cart: neither call
\* fails on the uniqueness conflict and both return the same cart
C3_FirstAccessResolved ==
    /\ \A r \in Procs : req[r].result # "IntegrityError carts.user_id"
    /\ \A r, s \in Procs :
          (req[r].user_id = req[s].user_id /\ req[r].cart # 0 /\ req[s].cart # 0)
             => req[r].cart = req[s].cart

\* C4: in every reachable state, under any interleaving of the operations,
\* there is at most one cart per user_id
C4_OneCartPerUser ==
    \A c, d \in carts : c.user_id = d.user_id => c = d

\* a concurrent first access lost the race for the user's cart
C4_Witness ==
    /\ carts # {}
    /\ \E r \in Procs : /\ req[r].pc = "done"
                        /\ req[r].result = "IntegrityError carts.user_id"

\* C5: add_item for a found, active product succeeds exactly when the
\* snapshot stock covers the requested quantity plus the quantity already in
\* the cart; otherwise it fails with "Insufficient stock" and leaves the
\* line items as they were
C5_AddItemStockCheck ==
    \A r \in Finished("add_item") :
       LET l == req[r] IN
       ProductError(l.product) = OK =>
          /\ l.result = OK <=> l.product.stock >= l.quantity + SumQuantity(Before(l))
          /\ l.result # OK => l.result = "Insufficient stock" /\ items = l.pre

\* an add_item the stock would cover alone is refused for what the cart holds
C5_Witness ==
    \E r \in Finished("add_item") :
       LET l == req[r] IN
       /\ l.result = "Insufficient stock"
       /\ Before(l) # {}
       /\ l.product.stock >= l.quantity
       /\ items = l.pre

\* C6: a successful add_item leaves exactly one line item for the product,
\* its quantity the quantity found plus the requested one, so that two
\* successive adds of q1 and q2 leave one line item of q1 + q2
C6_AddsAccumulate ==
    \A r \in Finished("add_item") :
       LET l == req[r] IN
       l.result = OK =>
          /\ Cardinality(After(l)) = 1
          /\ SumQuantity(After(l)) = SumQuantity(Before(l)) + l.quantity

\* the second of two adds: the product was in the cart already
C6_Witness ==
    \E r \in Finished("add_item") :
       LET l == req[r] IN
       /\ l.result = OK
       /\ Cardinality(Before(l)) = 1
       /\ Cardinality(After(l)) = 1
       /\ SumQuantity(After(l)) = SumQuantity(Before(l)) + l.quantity

\* C7: add_item fails with "Product not found" when the catalog has no
\* snapshot and with "Product is not available" when the snapshot is
\* inactive, whatever the stock, and leaves the line items as they were
C7_AddItemValidation ==
    \A r \in Finished("add_item") :
       LET l == req[r] IN
       /\ ~l.product.found => l.result = "Product not found" /\ items = l.pre
       /\ (l.product.found /\ ~l.product.is_active)
             => l.result = "Product is not available" /\ items = l.pre

\* an inactive product without the stock asked for, in a cart that holds it
C7_Witness ==
    \E r \in Finished("add_item") :
       LET l == req[r] IN
       /\ l.product.found /\ ~l.product.is_active
       /\ l.product.stock < l.quantity
       /\ l.result = "Product is not available"
       /\ Before(l) # {}
       /\ items = l.pre

\* C8: after a successful add_item the line item's stored price is the
\* price of the snapshot that call fetched
C8_AddItemPrice ==
    \A r \in Finished("add_item") :
       LET l == req[r] IN
       l.result = OK => \A i \in After(l) : i.price = l.product.price

\* the item was in the cart at another price
C8_Witness ==
    \E r \in Finished("add_item") :
       LET l == req[r] IN
       /\ l.result = OK
       /\ \E i \in Before(l) : i.price # l.product.price
       /\ \E i \in After(l) : i.price = l.product.price

\* C9: update_item on an existing line item succeeds exactly when the
\* snapshot is found, active and has stock >= the requested quantity; then
\* the quantity is the requested one and the price is the one found; a
\* failure leaves the line items as they were
C9_UpdateItem ==
    \A r \in Finished("update_item") :
       LET l == req[r] IN
       Before(l) # {} =>
          /\ l.result = OK <=>
                (l.product.found /\ l.product.is_active /\ l.product.stock >= l.quantity)
          /\ l.result = OK =>
                /\ Cardinality(After(l)) = 1
                /\ \A i \in After(l) : i.quantity = l.quantity
                /\ {i.price : i \in After(l)} = {i.price : i \in Before(l)}
                /\ {i \in items : i \notin After(l)} = {i \in l.pre : i \notin Before(l)}
          /\ l.result # OK => items = l.pre

\* an update the stock covers, which an increment would not be
C9_Witness ==
    \E r \in Finished("update_item") :
       LET l == req[r] IN
       /\ l.result = OK
       /\ Before(l) # {}
       /\ \A i \in Before(l) : i.quantity # l.quantity
       /\ l.product.stock < l.quantity + SumQuantity(Before(l))
       /\ \A i \in After(l) : i.quantity = l.quantity

\* C10: update_item for a user with no cart, or for a product with no line
\* item in the cart, fails with a not-found error before any catalog call
\* and creates neither a cart nor a line item
C10_UpdateItemNotFound ==
    \A r \in Finished("update_item") :
       LET l == req[r]
           no_cart == \A c \in l.pre_carts : c.user_id # l.user_id IN
       Before(l) = {} =>
          /\ l.result = IF no_cart THEN "Cart not found" ELSE "Item not in cart"
          /\ ~l.catalog_called
          /\ carts = l.pre_carts
          /\ items = l.pre

\* the cart exists and holds another product
C10_Witness ==
    \E r \in Finished("update_item") :
       LET l == req[r] IN
       /\ Before(l) = {}
       /\ l.pre # {}
       /\ l.result = "Item not in cart"
       /\ ~l.catalog_called

\* C11: remove_item for a product with no line item in the user's cart fails
\* with a not-found error ("Item not in cart", or "Cart not found" when the
\* user has no cart) and leaves the store as it was; for a product in the
\* cart it deletes that line item and leaves every other one as it was
C11_RemoveItem ==
    \A r \in Finished("remove_item") :
       LET l == req[r]
           no_cart == \A c \in l.pre_carts : c.user_id # l.user_id IN
       /\ carts = l.pre_carts
       /\ Before(l) = {} =>
             /\ l.result = IF no_cart THEN "Cart not found" ELSE "Item not in cart"
             /\ items = l.pre
       /\ Before(l) # {} =>
             /\ l.result = OK
             /\ items = l.pre \ Before(l)

\* one of two line items is removed
C11_Witness ==
    \E r \in Finished("remove_item") :
       LET l == req[r] IN
       /\ l.result = OK
       /\ Before(l) # {}
       /\ items # {}
       /\ items = l.pre \ Before(l)

\* the quantity a batch asks for product p in the items of the set S
RECURSIVE Asked(_, _, _)
Asked(b, S, p) ==
    IF S = {} THEN 0
    ELSE LET i == CHOOSE x \in S : TRUE IN
         (IF b[i].product_id = p THEN b[i].quantity ELSE 0) + Asked(b, S \ {i}, p)

\* add_items_bulk, one request at a time: the items that pass validation
\* are persisted and the others are counted as failed, one error string each
BulkSequential ==
    \A r \in Finished("add_items_bulk") :
       LET l == req[r] IN
       /\ l.result = OK
       /\ l.success = Cardinality(l.passed)
       /\ l.success + l.failed = Len(l.batch)
       /\ Len(l.errors) = l.failed
       /\ \A p \in Products :
             LET m == [l EXCEPT !.product_id = p] IN
             SumQuantity(After(m)) = SumQuantity(Before(m)) + Asked(l.batch, l.passed, p)

\* C12: add_items_bulk processes every item independently: an item that
\* fails validation or hits an error is counted as failed with one error
\* string and does not abort the batch, the items that pass validation
\* before and after it are added, and the counts add up to the batch (of a
\* request that got its cart)
C12_BulkIndependent ==
    \A r \in Finished("add_items_bulk") :
       LET l == req[r] IN
       l.result # "IntegrityError carts.user_id" =>
       /\ l.result = OK
       /\ l.success + l.failed = Len(l.batch)
       /\ Len(l.errors) = l.failed
       /\ \A i \in 1..Len(l.errors) : l.errors[i] # "PendingRollbackError"

\* the line items of the user of request l, among rows
UserItems(l, rows, user_carts) ==
    {i \in rows : \E c \in user_carts : c.user_id = l.user_id /\ c.id = i.cart_id}

\* C13: prepare_checkout is read-only: at every step of it and whatever its
\* outcome, no cart is created and the line items, their quantities and
\* their prices are those it found
C13_CheckoutReadOnly ==
    \A r \in Procs :
       req[r].op = "prepare_checkout" =>
          /\ carts = req[r].pre_carts
          /\ items = req[r].pre

\* a checkout refused for a deactivated product, the cart as it was
C13_Witness ==
    \E r \in Finished("prepare_checkout") :
       LET l == req[r] IN
       /\ l.result = OK
       /\ ~l.available_for_checkout
       /\ \E p \in l.unavailable : l.fetched[p].found /\ ~l.fetched[p].is_active
       /\ items = l.pre /\ items # {}

\* C14: available_for_checkout is true exactly when every line item's
\* product is found, active and in stock for the item's quantity in the
\* validation's batch result, and unavailable_items is the set of the
\* products of the items that fail one of the three
C14_CheckoutAvailability ==
    \A r \in Finished("prepare_checkout") :
       LET l == req[r]
           bad == {i \in UserItems(l, l.pre, l.pre_carts) :
                     LET v == l.fetched[i.product_id] IN
                     ~(v.found /\ v.is_active /\ v.stock >= i.quantity)} IN
       l.result = OK =>
          /\ l.unavailable = {i.product_id : i \in bad}
          /\ l.available_for_checkout <=> bad = {}

\* of two items, one is short of stock and nothing else
C14_Witness ==
    \E r \in Finished("prepare_checkout") :
       LET l == req[r] IN
       /\ l.result = OK
       /\ Cardinality(UserItems(l, l.pre, l.pre_carts)) = 2
       /\ Cardinality(l.unavailable) = 1
       /\ \A p \in l.unavailable : l.fetched[p].found /\ l.fetched[p].is_active
       /\ ~l.available_for_checkout

\* C15: prepare_checkout fails with "Cart is empty" when the user has no
\* cart or the cart has no line items, without a catalog call (and only
\* then)
C15_CheckoutEmpty ==
    \A r \in Finished("prepare_checkout") :
       LET l == req[r] IN
       IF UserItems(l, l.pre, l.pre_carts) = {}
       THEN l.result = "Cart is empty" /\ ~l.catalog_called
       ELSE l.result = OK

\* the cart exists and has no line item
C15_Witness ==
    \E r \in Finished("prepare_checkout") :
       LET l == req[r] IN
       /\ \E c \in l.pre_carts : c.user_id = l.user_id
       /\ l.pre = {}
       /\ l.result = "Cart is empty"
       /\ ~l.catalog_called

\* C16: after sync_prices every line item of the cart whose product is in
\* the batch result has the price of the result, every other one keeps its
\* price, and no line item is added, removed or changed in quantity
C16_SyncPrices ==
    \A r \in Finished("sync_prices") :
       LET l == req[r]
           mine == UserItems(l, l.pre, l.pre_carts)
           live(i) == l.fetched[i.product_id] IN
       /\ l.result = OK
       /\ items = (l.pre \ mine)
                     \cup {[i EXCEPT !.price = IF live(i).found THEN live(i).price ELSE @] :
                              i \in mine}

\* one item takes the live price, the other's product is gone
C16_Witness ==
    \E r \in Finished("sync_prices") :
       LET l == req[r]
           mine == UserItems(l, l.pre, l.pre_carts) IN
       /\ l.result = OK
       /\ \E i \in mine : /\ l.fetched[i.product_id].found
                            /\ l.fetched[i.product_id].price # i.price
                            /\ [i EXCEPT !.price = l.fetched[i.product_id].price] \in items
       /\ \E j \in mine : ~l.fetched[j.product_id].found /\ j \in items

\* the requests that have returned a cart response
Responded ==
    {r \in Procs : /\ req[r].pc = "done"
                    /\ req[r].result = OK
                    /\ req[r].op # "clear_cart"}

\* every cart response carries the sum of the stored quantities, and a
\* subtotal that is the sum of quantity x unit price to the nearest hundredth
ResponseTotalsNearest ==
    \A r \in Responded :
       LET l == req[r]
           stored == UserItems(l, items, carts) IN
       /\ l.response.total_items = SumQuantity(stored)
       /\ l.response.subtotal.hundredths = SumTotal(stored)

\* C17: in every cart response total_items is the sum of the stored
\* line-item quantities and subtotal is the sum of quantity x unit price
\* over the stored line items
C17_ResponseTotals ==
    \A r \in Responded :
       LET l == req[r]
           stored == UserItems(l, items, carts) IN
       /\ l.response.total_items = SumQuantity(stored)
       /\ l.response.subtotal = [hundredths |-> SumTotal(stored), exact |-> TRUE]

\* C18: a get_cart that follows a get_cart returns the same subtotal and
\* total_items, and a prepare_checkout that follows a prepare_checkout
\* under the same catalog answers returns the same subtotal, total_items
\* and available_for_checkout
C18_ReadsRepeat ==
    \A r \in Procs :
       LET l == req[r]
           last == l.prev IN
       (/\ l.pc = "done"
        /\ last.op = l.op
        /\ last.user_id = l.user_id
        /\ last.fetched = l.fetched) =>
          /\ l.result = last.result
          /\ l.response.total_items = last.total_items
          /\ l.response.subtotal = last.subtotal
          /\ l.available_for_checkout = last.available_for_checkout

\* the second of two checkouts of a cart with an item
C18_Witness ==
    \E r \in Finished("prepare_checkout") :
       LET l == req[r] IN
       /\ l.prev.op = "prepare_checkout"
       /\ l.prev.fetched = l.fetched
       /\ l.result = OK
       /\ items # {}
       /\ l.response.total_items = l.prev.total_items
       /\ l.available_for_checkout = l.prev.available_for_checkout

\* the second get_cart after a first that created the cart
SecondGetCart ==
    \E r \in Finished("get_cart") :
       /\ req[r].prev.op = "get_cart"
       /\ req[r].prev.cart_created
       /\ req[r].result = OK

\* the stored line items as a response shows them
Shown(rows) == {<<i.product_id, i.quantity, i.price>> : i \in rows}

\* C19: when no fetch of the catalog succeeds, an add_item and an
\* update_item fail and leave the line items as they were, and a get_cart
\* succeeds and returns every stored line item with its stored quantity and
\* price
C19_CatalogOutage ==
    /\ \A r \in Finished("add_item") \cup Finished("update_item") :
          LET l == req[r] IN
          ~l.product.found => l.result # OK /\ items = l.pre
    /\ \A r \in Finished("get_cart") :
          LET l == req[r] IN
          (\A i \in l.response.items : ~i.in_result) =>
             /\ l.result = OK
             /\ Shown(l.response.items) = Shown(UserItems(l, items, carts))

\* a cart of two items is returned whole without the catalog
C19_Witness ==
    \E r \in Finished("get_cart") :
       LET l == req[r] IN
       /\ l.result = OK
       /\ Cardinality(l.response.items) = 2
       /\ \A i \in l.response.items : ~i.in_result
       /\ Shown(l.response.items) = Shown(UserItems(l, items, carts))

\* an update of an item in the cart is refused without the catalog
OutageRefusesUpdate ==
    \E r \in Finished("update_item") :
       LET l == req[r] IN
       /\ Before(l) # {}
       /\ l.catalog_called /\ ~l.product.found
       /\ l.result = "Requested quantity not available"
       /\ items = l.pre

\* the display fields when all are null
NullDisplay ==
    [product_title |-> "null", product_image |-> "null", product_in_stock |-> "null"]

\* a line item whose product the batch result lacks is returned with its
\* stored quantity and price
MissingProductKept ==
    \A r \in Finished("get_cart") :
       LET l == req[r] IN
       l.result = OK /\ Shown(l.response.items) = Shown(UserItems(l, items, carts))

\* C20: in get_cart a line item whose product the batch result lacks is
\* returned with its stored quantity and price, and its display fields
\* (title, image, in-stock flag) are all null
C20_MissingProductDisplay ==
    \A r \in Finished("get_cart") :
       LET l == req[r] IN
       /\ l.result = OK
       /\ Shown(l.response.items) = Shown(UserItems(l, items, carts))
       /\ \A i \in l.response.items : ~i.in_result => i.display = NullDisplay

\* the (cart, product) pairs that have a line item among rows
Pairs(rows) == {<<i.cart_id, i.product_id>> : i \in rows}

\* C21: a line item for (cart, product) goes from absent to present only in
\* the write of an add_item or an add_items_bulk for that cart and product;
\* no step of another operation creates one, whatever a concurrent request
\* deleted after that operation read the item
C21_OnlyAddsCreate ==
    [][\A k \in Pairs(items') \ Pairs(items) :
          \E r \in Procs :
             /\ req[r].op \in {"add_item", "add_items_bulk"}
             /\ req[r].pc \in {"add_repo_write", "bulk_repo_write"}
             /\ req'[r].pc # req[r].pc
             /\ k = <<req[r].cart, req[r].product_id>>]_vars

\* an update_item read its item, a concurrent request deleted it, and the
\* update failed without bringing the item back
C21_Witness ==
    \E r \in Finished("update_item") :
       /\ req[r].result = "StaleDataError"
       /\ ItemRows(req[r].cart, req[r].product_id) = {}
\* C22: every line item in every reachable state has a quantity in 1..100,
\* after any sequence of add_item, add_items_bulk and update_item calls whose
\* request quantities are each within 1..100
C22_QuantityBounded ==
    \A i \in items : QuantityValid(i.quantity)
\* the failures of kind NotFound: the cart, the item or the product is absent
NotFoundErrors == {"Cart not found", "Item not in cart", "Product not found"}

\* C23: the HTTP layer answers 404 to every engine failure of kind NotFound
\* and 400 to every other engine failure, on every cart endpoint
C23_StatusMapping ==
    \A r \in Procs :
       LET l == req[r] IN
       (l.pc = "done" /\ l.result \in ValueErrors) =>
          http_status(l.op, l.result) = IF l.result \in NotFoundErrors THEN 404 ELSE 400
\* the entries of a list of validate_products for product p
Entries(list, p) == {x \in list : x.product_id = p}

\* C24: validate_products puts every input item in exactly one of the valid
\* and invalid lists, and the reason of an invalid item is the first that
\* applies of not found, not active, insufficient stock
C24_ValidateProducts ==
    \A r \in Finished("prepare_checkout") :
       LET l == req[r] IN
       l.result = OK =>
          /\ \A i \in UserItems(l, l.pre, l.pre_carts) :
                LET v == l.fetched[i.product_id]
                    p == i.product_id IN
                /\ Cardinality(Entries(l.valid, p)) + Cardinality(Entries(l.invalid, p)) = 1
                /\ \A x \in Entries(l.invalid, p) :
                      x.reason = IF ~v.found THEN "Product not found"
                                 ELSE IF ~v.is_active THEN "Product is not active"
                                 ELSE "Insufficient stock"
                /\ Entries(l.valid, p) # {} =>
                      v.found /\ v.is_active /\ v.stock >= i.quantity
          /\ \A x \in l.valid \cup l.invalid :
                \E i \in UserItems(l, l.pre, l.pre_carts) : i.product_id = x.product_id

\* an item whose product is inactive and short of stock is reported as not
\* active, next to a valid item
C24_Witness ==
    \E r \in Finished("prepare_checkout") :
       LET l == req[r] IN
       /\ l.result = OK
       /\ l.valid # {}
       /\ \E i \in UserItems(l, l.pre, l.pre_carts) :
             LET v == l.fetched[i.product_id] IN
             /\ v.found /\ ~v.is_active /\ v.stock < i.quantity
             /\ Entries(l.invalid, i.product_id)
                   = {[product_id |-> i.product_id, reason |-> "Product is not active"]}
\* C25: get_products_batch never raises on a failure of one fetch: an error,
\* a timeout or a status other than 200 only leaves that id out of the
\* result, every requested id whose fetch returns 200 is in it, and its
\* keys are among the requested ids
C25_BatchIsolatesFailures ==
    \A r \in Finished("get_products_batch") :
       LET l == req[r] IN
       /\ l.result = OK
       /\ \A p \in Products :
             l.fetched[p] = IF p \in l.ids /\ l.answers[p].status = "200"
                            THEN l.answers[p].body ELSE NotFound
       /\ l.fetched \in get_products_batch(Snapshots, l.ids)

\* of two fetches one ends on a transport error and the other one's
\* snapshot is in the result
C25_Witness ==
    \E r \in Finished("get_products_batch") :
       LET l == req[r] IN
       /\ l.result = OK
       /\ l.ids = Products
       /\ \E p, q \in l.ids : /\ l.answers[p].status = "error"
                              /\ ~l.fetched[p].found
                              /\ l.answers[q].status = "200"
                              /\ l.fetched[q] = l.answers[q].body
                              /\ l.fetched[q].found

\* C26: get_product returns the snapshot of a 200 response and None for a
\* 404, any other status, a timeout and any transport exception; no
\* exception leaves it
C26_GetProductNormalizes ==
    /\ get_product(Snapshots) = {get_product_for(a).product : a \in Answers(Snapshots)}
    /\ \A r \in Finished("get_product") :
          LET l == req[r]
              a == l.answers[l.product_id] IN
          /\ l.result = OK
          /\ l.product = IF a.status = "200" THEN a.body ELSE NotFound

\* a fetch timed out and the caller got None
C26_Witness ==
    \E r \in Finished("get_product") :
       LET l == req[r] IN
       /\ l.answers[l.product_id].status = "timeout"
       /\ l.result = OK
       /\ l.product = NotFound
\* the two requests of a pair have finished, both were answered the same
\* snapshot of a product on sale, and the cart they found was within stock
PairOnOneSnapshot ==
    /\ \A r \in Procs : r \in Finished("add_item") /\ ProductError(req[r].product) = OK
    /\ \A r, s \in Procs : req[r].product = req[s].product
    /\ \A r \in Procs : SumQuantity(Before(req[r])) <= req[r].product.stock

\* C27: with an unchanging catalog, two concurrent add_item calls for the
\* same user and product leave a stored quantity that is at most the
\* snapshot stock, whatever the interleaving of their steps
C27_ConcurrentAddsWithinStock ==
    PairOnOneSnapshot =>
       \A r \in Procs :
          \A i \in After(req[r]) : i.quantity <= req[r].product.stock
\* C28: add_items_bulk adds an item of the batch only if the snapshot stock
\* covers its quantity on top of what the cart holds for the product, what
\* the batch added before included: after the batch no line item it touched
\* has a quantity above the stock of its product (which the catalog never
\* reports above MaxStock)
C28_BulkWithinStock ==
    \A r \in Finished("add_items_bulk") :
       LET l == req[r] IN
       \A p \in Products :
          LET m == [l EXCEPT !.product_id = p] IN
          Asked(l.batch, l.passed, p) > 0 =>
             \A i \in After(m) : i.quantity <= MaxStock
\* C29: the stored unit price of a line item changes only in the write of
\* an add_item, an add_items_bulk or a sync_prices for that item: no other
\* step changes it, whatever price the catalog answers, and so get_cart,
\* get_cart_summary, prepare_checkout, update_item and remove_item leave
\* every stored price as it is
C29_PriceWriters ==
    [][\A i \in items, j \in items' :
          (i.id = j.id /\ i.price # j.price) =>
             \E r \in Procs :
                /\ req[r].op \in {"add_item", "add_items_bulk", "sync_prices"}
                /\ req[r].pc \in {"add_repo_write", "bulk_repo_write", "sync_upd_write"}
                /\ req'[r].pc # req[r].pc
                /\ req[r].existing_item.id = i.id]_vars

\* an update_item was answered another price than the stored one, set the
\* quantity and left the price
C29_Witness ==
    \E r \in Finished("update_item") :
       LET l == req[r] IN
       /\ l.result = OK
       /\ \E i \in Before(l) :
             /\ i.quantity # l.quantity
             /\ i.price # l.product.price
             /\ After(l) = {[i EXCEPT !.quantity = l.quantity]}
\* C30: a step of an operation for user A leaves the cart and the line
\* items of every other user as they were, in any interleaving with the
\* requests of the others; clear_cart for A deletes the line items of A, all
\* of them and no other, and reports "Cart not found" when A has no cart
C30_UserIsolation ==
    [][\A r \in Procs :
          req'[r].pc # req[r].pc =>
             LET l == req[r] IN
             /\ \A b \in Users \ {l.user_id} :
                   /\ {c \in carts' : c.user_id = b} = UserCarts(b)
                   /\ OfUser(items', carts', b) = OfUser(items, carts, b)
             /\ l.pc = "clr_delete" =>
                   /\ items' = items \ OfUser(items, carts, l.user_id)
                   /\ req'[r].result = OK
             /\ (l.pc = "clr_select_cart" /\ UserCarts(l.user_id) = {}) =>
                   /\ req'[r].pc = "done"
                   /\ req'[r].result = "Cart not found"]_vars

\* a clear_cart emptied the cart of its user, which held an item, while the
\* other user has a request in flight and keeps an item
C30_Witness ==
    \E r \in Finished("clear_cart") :
       LET l == req[r] IN
       /\ l.result = OK
       /\ l.pre # {}
       /\ OfUser(items, carts, l.user_id) = {}
       /\ \E b \in Users \ {l.user_id} :
             /\ OfUser(items, carts, b) # {}
             /\ \E s \in Procs : req[s].user_id = b /\ req[s].pc \notin {"idle", "done"}

\* clear_cart, one request at a time and two products: without a cart it
\* reports "Cart not found", with one it deletes every line item of the cart
ClearCartSequential ==
    \A r \in Finished("clear_cart") :
       LET l == req[r]
           no_cart == \A c \in l.pre_carts : c.user_id # l.user_id IN
       /\ carts = l.pre_carts
       /\ l.result = IF no_cart THEN "Cart not found" ELSE OK
       /\ items = l.pre \ UserItems(l, l.pre, l.pre_carts)
====
